---- MODULE Spec2Model ----
(***************************************************************************)
(* historical_stock_growth.py: the run of main() as a state machine.       *)
(*                                                                         *)
(* Text is modelled as sequences of one-character strings, a date string   *)
(* 'YYYY-MM-DD' as the triple <<Y, M, D>> (zero padded ISO text orders as  *)
(* the triple does), a table as its column labels and its rows of cells.   *)
(* The clock shows one day for the whole run; the ticker list file, when   *)
(* it exists, holds at least one line and no blank line.                   *)
(***************************************************************************)
EXTENDS Integers, Sequences, FiniteSets, TLC

VARIABLES
    pc,              \* position of main()
    argv,            \* command line: [flag, periods]
    fs,              \* file system: [ticker_file, output]
    today,           \* the calendar day the clock shows
    holidays,        \* what the calendar provider lists as market holidays
    args,            \* the namespace parse_and_validate_args returns
    dates,           \* main's list `dates`
    unchecked_dates, \* the list get_dates returned, before check_dates
    tickers,         \* main's list `tickers`
    df,              \* the data frame
    ticker_idx,      \* get_prices: position of the outer loop (1-based)
    date_idx,        \* get_prices: position of the inner loop (1-based)
    close_vals,      \* get_prices: close prices of the current ticker
    queries,         \* every call made to a provider, in order
    exit_status      \* process exit status, -1 while running

vars == <<pc, argv, fs, today, holidays, args, dates, unchecked_dates, tickers,
          df, ticker_idx, date_idx, close_vals, queries, exit_status>>

\* ---------------------------------------------------------------- bounds
MaxTickers == 2
MaxPeriods == 2

\* ------------------------------------------------------------ sequences
SeqsUpTo(S, n) == UNION {[1..k -> S] : k \in 0..n}

NonEmptySeqsUpTo(S, n) == UNION {[1..k -> S] : k \in 1..n}

RECURSIVE Concat(_)
Concat(ss) == IF ss = <<>> THEN <<>> ELSE Head(ss) \o Concat(Tail(ss))

Map(s, Op(_)) == [i \in 1..Len(s) |-> Op(s[i])]

\* ------------------------------------------------- dates (datetime module)
NoDate == <<0, 0, 0>>

IsLeap(y) == (y % 4 = 0 /\ y % 100 # 0) \/ y % 400 = 0

DaysInMonth(y, m) ==
    IF m = 2 THEN (IF IsLeap(y) THEN 29 ELSE 28)
    ELSE IF m \in {4, 6, 9, 11} THEN 30 ELSE 31

\* datetime.strptime(date, '%Y-%m-%d'): days since 1970-01-01 of a civil date
ToDays(date) ==
    LET y   == IF date[2] <= 2 THEN date[1] - 1 ELSE date[1]
        era == y \div 400
        yoe == y - era * 400
        mp  == IF date[2] > 2 THEN date[2] - 3 ELSE date[2] + 9
        doy == (153 * mp + 2) \div 5 + date[3] - 1
        doe == yoe * 365 + yoe \div 4 - yoe \div 100 + doy
    IN  era * 146097 + doe - 719468

\* .strftime('%Y-%m-%d'): the civil date of a day count
FromDays(z) ==
    LET s   == z + 719468
        era == s \div 146097
        doe == s - era * 146097
        yoe == (doe - doe \div 1460 + doe \div 36524 - doe \div 146096) \div 365
        doy == doe - (365 * yoe + yoe \div 4 - yoe \div 100)
        mp  == (5 * doy + 2) \div 153
        d   == doy - (153 * mp + 2) \div 5 + 1
        m   == IF mp < 10 THEN mp + 3 ELSE mp - 9
        y   == yoe + era * 400 + (IF m <= 2 THEN 1 ELSE 0)
    IN  <<y, m, d>>

\* datetime.weekday(): 0 = Monday .. 6 = Sunday (1970-01-01 was a Thursday)
Weekday(date) == (ToDays(date) + 3) % 7

\* date +/- timedelta(days=n)
AddDays(date, n) == FromDays(ToDays(date) + n)

\* date - relativedelta(years=n): same month, day clipped to the month's length
SubYears(date, n) ==
    LET y == date[1] - n
        last == DaysInMonth(y, date[2])
    IN  <<y, date[2], IF date[3] > last THEN last ELSE date[3]>>

\* string comparison of two 'YYYY-MM-DD' texts
DateLess(a, b) ==
    \/ a[1] < b[1]
    \/ a[1] = b[1] /\ a[2] < b[2]
    \/ a[1] = b[1] /\ a[2] = b[2] /\ a[3] < b[3]

\* ------------------------------------------------------ text (str, int)
Digits == {"0", "1", "2", "3", "4", "5", "6", "7", "8", "9"}

DigitValue(c) ==
    CASE c = "0" -> 0 [] c = "1" -> 1 [] c = "2" -> 2 [] c = "3" -> 3
      [] c = "4" -> 4 [] c = "5" -> 5 [] c = "6" -> 6 [] c = "7" -> 7
      [] c = "8" -> 8 [] c = "9" -> 9

AllDigits(s) == Len(s) > 0 /\ \A i \in 1..Len(s) : s[i] \in Digits

RECURSIVE DecimalValue(_)
DecimalValue(s) ==
    IF s = <<>> THEN 0
    ELSE 10 * DecimalValue(SubSeq(s, 1, Len(s) - 1)) + DigitValue(s[Len(s)])

\* int(s) succeeds: an optional sign and at least one digit
IsIntLiteral(s) ==
    IF Len(s) > 0 /\ s[1] \in {"-", "+"} THEN AllDigits(Tail(s)) ELSE AllDigits(s)

\* int(s)
IntOf(s) ==
    IF s[1] = "-" THEN 0 - DecimalValue(Tail(s))
    ELSE IF s[1] = "+" THEN DecimalValue(Tail(s))
    ELSE DecimalValue(s)

\* period.endswith('y')
EndsWithY(s) == Len(s) > 0 /\ s[Len(s)] = "y"

\* period[:-1]
DropLast(s) == IF Len(s) = 0 THEN <<>> ELSE SubSeq(s, 1, Len(s) - 1)

Whitespace == {" ", "\n", "\t"}

\* str.strip()
RECURSIVE Strip(_)
Strip(s) ==
    IF s = <<>> THEN <<>>
    ELSE IF s[1] \in Whitespace THEN Strip(Tail(s))
    ELSE IF s[Len(s)] \in Whitespace THEN Strip(DropLast(s))
    ELSE s

\* argparse: an argument that starts with '-' is taken as an option unless it
\* reads as a negative number; the parser defines no such option and rejects it
NegativeNumberLike(s) ==
    /\ Len(s) > 1
    /\ s[1] = "-"
    /\ \/ AllDigits(Tail(s))
       \/ \E k \in 2..Len(s) :
             /\ s[k] = "."
             /\ \A i \in 2..(k - 1) : s[i] \in Digits
             /\ AllDigits(SubSeq(s, k + 1, Len(s)))

ArgparseRejects(s) == Len(s) > 1 /\ s[1] = "-" /\ ~NegativeNumberLike(s)


\* ------------------------------------------------------- cells and labels
\* A cell is text, a number n/d, or one of the float specials.
Text(s)   == [k |-> "str",  s |-> s,    n |-> 0, d |-> 1]
Num(n)    == [k |-> "num",  s |-> <<>>, n |-> n, d |-> 1]
Frac(n, d) == [k |-> "num", s |-> <<>>, n |-> n, d |-> d]
NaN       == [k |-> "nan",  s |-> <<>>, n |-> 0, d |-> 1]
PosInf    == [k |-> "inf",  s |-> <<>>, n |-> 1, d |-> 0]
NegInf    == [k |-> "inf",  s |-> <<>>, n |-> 0 - 1, d |-> 0]
None      == [k |-> "none", s |-> <<>>, n |-> 0, d |-> 1]
\* answers of the provider that are not values
EmptyFrame == [k |-> "empty", s |-> <<>>, n |-> 0, d |-> 1]
Raised    == [k |-> "raise", s |-> <<>>, n |-> 0, d |-> 1]

\* Column labels: 'ticker', '<now> price', '<date>', '<date> close', '<date> return'
Label(kind, date) == [kind |-> kind, date |-> date]

TickerLabel == Label("ticker", NoDate)

\* rank of what follows the date in a label's text: nothing, ' HH:MM price'
\* (a digit after the blank), ' close', ' return'
SuffixRank(kind) ==
    CASE kind = "date" -> 0 [] kind = "price" -> 1 [] kind = "close" -> 2
      [] kind = "return" -> 3 [] OTHER -> 4

\* string comparison a < b of two labels' texts ('t' sorts after every digit)
LabelLess(a, b) ==
    IF a.kind = "ticker" \/ b.kind = "ticker"
    THEN a.kind # "ticker" /\ b.kind = "ticker"
    ELSE \/ DateLess(a.date, b.date)
         \/ a.date = b.date /\ SuffixRank(a.kind) < SuffixRank(b.kind)

\* col.endswith('close')
EndsWithClose(label) == label.kind = "close"

\* label.replace('close', 'return')
ReplaceCloseReturn(label) ==
    IF label.kind = "close" THEN Label("return", label.date) ELSE label

\* date + ' close'
CloseLabel(date) == Label("close", date)

NoFrame == [columns |-> <<>>, rows |-> <<>>]

\* df[labels]: for each requested label, every column that carries it
ColumnPositions(columns, label) ==
    LET F[i \in 0..Len(columns)] ==
            IF i = 0 THEN <<>>
            ELSE IF columns[i] = label THEN Append(F[i - 1], i) ELSE F[i - 1]
    IN  F[Len(columns)]

TakeColumns(frame, positions) ==
    [columns |-> [j \in 1..Len(positions) |-> frame.columns[positions[j]]],
     rows    |-> [r \in 1..Len(frame.rows) |->
                    [j \in 1..Len(positions) |-> frame.rows[r][positions[j]]]]]

SelectColumns(frame, labels) ==
    TakeColumns(frame,
        Concat([j \in 1..Len(labels) |-> ColumnPositions(frame.columns, labels[j])]))


\* ---------------------------------------------------------------- inputs
\* ticker symbols and the lines of the ticker list file that hold them
AAA == <<"A", "A", "A">>
BBB == <<"B", "B">>
ZZZ == <<"Z", "Z", "Z">>

LineOf(symbol) == IF symbol = BBB THEN <<" ">> \o symbol \o <<"\n">> ELSE symbol \o <<"\n">>

\* What the market-data provider may answer. AAA is an ordinary stock with days
\* of no data, BBB one with data on every day; ZZZ is a degenerate one
\* (worthless on some days, no live quote on others).
HistoryAnswers(ticker) ==
    IF ticker = ZZZ THEN {EmptyFrame, Num(0), Num(50)}
    ELSE IF ticker = AAA THEN {EmptyFrame, Num(50)}
    ELSE {Num(20)}

LiveAnswers(ticker) ==
    IF ticker = ZZZ THEN {Raised, None, Num(0), Num(55)}
    ELSE IF ticker = AAA THEN {Raised, Num(55)}
    ELSE {Raised, Num(30)}

\* period specifiers as typed on the command line
P(a)       == <<a>>
P2(a, b)   == <<a, b>>
P3(a, b, c) == <<a, b, c>>

\* '1', '1y', and three that are no integers: 'x', 'xy', '-1y'
RunPeriodPool == {P("1"), P2("1", "y"), P("x"), P2("x", "y"), P3("-", "1", "y")}

\* '0', '1', '-1', '-2', '-4', '1y' and 'x'
TablePeriodPool ==
    {P("0"), P("1"), P2("-", "1"), P2("-", "2"), P2("-", "4"), P2("1", "y"), P("x")}

LeapDay == <<2024, 2, 29>>   \* a Thursday

InitWith(symbolLists, periodPool, holidaySets) ==
    /\ pc = "start"
    /\ \E flag \in {"0", "1"}, periods \in SeqsUpTo(periodPool, MaxPeriods) :
           argv = [flag |-> flag, periods |-> periods]
    /\ \E exists \in BOOLEAN, symbols \in symbolLists :
           fs = [ticker_file |-> [exists |-> exists,
                                  lines  |-> IF exists THEN Map(symbols, LineOf) ELSE <<>>],
                 output      |-> [written |-> FALSE, table |-> NoFrame]]
    /\ today = LeapDay
    /\ holidays \in holidaySets
    /\ args = [day_periods |-> <<>>, year_periods |-> <<>>, include_close_prices |-> 0]
    /\ dates = <<>>
    /\ unchecked_dates = <<>>
    /\ tickers = <<>>
    /\ df = NoFrame
    /\ ticker_idx = 0
    /\ date_idx = 0
    /\ close_vals = <<>>
    /\ queries = <<>>
    /\ exit_status = 0 - 1

\* a run over a list of ordinary tickers
Init ==
    InitWith(NonEmptySeqsUpTo({AAA, BBB}, MaxTickers), RunPeriodPool,
             {{<<2024, 2, 28>>}})

\* a run over the one degenerate ticker, every kind of period
InitTable == InitWith({<<ZZZ>>}, TablePeriodPool, {{}})

\* check_dates alone, on every list of days of two weeks and every holiday set
DateWindow ==
    {<<2024, 2, 22>>, <<2024, 2, 23>>, <<2024, 2, 24>>, <<2024, 2, 25>>,
     <<2024, 2, 26>>, <<2024, 1, 1>>}

HolidayWindow == {<<2024, 2, 22>>, <<2024, 2, 23>>, <<2024, 2, 26>>, <<2024, 1, 1>>}

InitDates ==
    /\ pc = "check_dates"
    /\ argv = [flag |-> "1", periods |-> <<>>]
    /\ fs = [ticker_file |-> [exists |-> TRUE, lines |-> <<>>],
             output      |-> [written |-> FALSE, table |-> NoFrame]]
    /\ today = LeapDay
    /\ holidays \in SUBSET HolidayWindow
    /\ args = [day_periods |-> <<>>, year_periods |-> <<>>, include_close_prices |-> 1]
    /\ dates \in SeqsUpTo(DateWindow, MaxPeriods)
    /\ unchecked_dates = dates
    /\ tickers = <<>>
    /\ df = NoFrame
    /\ ticker_idx = 0
    /\ date_idx = 0
    /\ close_vals = <<>>
    /\ queries = <<>>
    /\ exit_status = 0 - 1

\* --------------------------------------------- parse_and_validate_args
\* the specifier parses: int(period[:-1]) for a year period, int(period) else
ValidPeriod(period) ==
    IF EndsWithY(period) THEN IsIntLiteral(DropLast(period)) ELSE IsIntLiteral(period)

YearPeriods(periods) ==
    LET F[i \in 0..Len(periods)] ==
            IF i = 0 THEN <<>>
            ELSE IF EndsWithY(periods[i])
                 THEN Append(F[i - 1], IntOf(DropLast(periods[i])))
                 ELSE F[i - 1]
    IN  F[Len(periods)]

DayPeriods(periods) ==
    LET F[i \in 0..Len(periods)] ==
            IF i = 0 THEN <<>>
            ELSE IF EndsWithY(periods[i]) THEN F[i - 1]
                 ELSE Append(F[i - 1], IntOf(periods[i]))
    IN  F[Len(periods)]

\* (mutant) the existence of the ticker list file is not checked
ValidationStatus_NoFileCheck(a, files) ==
    IF \E i \in 1..Len(a.periods) : ArgparseRejects(a.periods[i]) THEN 2
    ELSE IF a.periods = <<>> THEN 1
    ELSE IF \E i \in 1..Len(a.periods) : ~ValidPeriod(a.periods[i]) THEN 1
    ELSE 0

\* 0 when the arguments are accepted, else the status the process exits with
ValidationStatus(a, files) ==
    IF \E i \in 1..Len(a.periods) : ArgparseRejects(a.periods[i]) THEN 2
    ELSE IF ~files.ticker_file.exists THEN 1
    ELSE IF a.periods = <<>> THEN 1
    ELSE IF \E i \in 1..Len(a.periods) : ~ValidPeriod(a.periods[i]) THEN 1
    ELSE 0

ParseAndValidateArgs ==
    /\ pc = "start"
    /\ IF ValidationStatus(argv, fs) # 0
       THEN /\ pc' = "exit"
            /\ exit_status' = ValidationStatus(argv, fs)
            /\ UNCHANGED args
       ELSE /\ pc' = "get_dates"
            /\ args' = [day_periods  |-> DayPeriods(argv.periods),
                        year_periods |-> YearPeriods(argv.periods),
                        include_close_prices |-> IF argv.flag = "1" THEN 1 ELSE 0]
            /\ UNCHANGED exit_status
    /\ UNCHANGED <<argv, fs, today, holidays, dates, unchecked_dates, tickers, df,
                   ticker_idx, date_idx, close_vals, queries>>

\* ------------------------------------------------------------- get_dates
\* list.sort(reverse=True) of date strings (insertion into a descending list)
RECURSIVE InsertDesc(_, _)
InsertDesc(sorted, x) ==
    IF sorted = <<>> THEN <<x>>
    ELSE IF DateLess(Head(sorted), x) THEN <<x>> \o sorted
    ELSE <<Head(sorted)>> \o InsertDesc(Tail(sorted), x)

SortDatesDesc(ds) ==
    LET F[i \in 0..Len(ds)] == IF i = 0 THEN <<>> ELSE InsertDesc(F[i - 1], ds[i])
    IN  F[Len(ds)]

ResolvedDates(a, now) ==
    [i \in 1..Len(a.day_periods) |-> AddDays(now, 0 - a.day_periods[i])]
    \o [i \in 1..Len(a.year_periods) |-> SubYears(now, a.year_periods[i])]

get_dates(a, now) == SortDatesDesc(ResolvedDates(a, now))

GetDates ==
    /\ pc = "get_dates"
    /\ dates' = get_dates(args, today)
    /\ unchecked_dates' = dates'
    /\ pc' = "read_tickers"
    /\ UNCHANGED <<argv, fs, today, holidays, args, tickers, df, ticker_idx,
                   date_idx, close_vals, queries, exit_status>>

\* ------------------------------------------- open_and_read_tickers_file
OpenAndReadTickersFile ==
    /\ pc = "read_tickers"
    /\ tickers' = Map(fs.ticker_file.lines, Strip)
    /\ pc' = "check_dates"
    /\ UNCHANGED <<argv, fs, today, holidays, args, dates, unchecked_dates, df,
                   ticker_idx, date_idx, close_vals, queries, exit_status>>

\* ----------------------------------------------------------- check_dates
\* the loop condition: a market holiday, or weekday() > 4
NotTradingDay(date, market_holidays) ==
    date \in market_holidays \/ Weekday(date) > 4

\* the while loop of one list element
RECURSIVE PreviousMarketDay(_, _)
PreviousMarketDay(date, market_holidays) ==
    IF NotTradingDay(date, market_holidays)
    THEN PreviousMarketDay(AddDays(date, 0 - 1), market_holidays)
    ELSE date

\* (mutant) an `if` where the loop is: one step back at most
check_dates_OneStep(ds, market_holidays) ==
    [i \in 1..Len(ds) |->
        IF NotTradingDay(ds[i], market_holidays) THEN AddDays(ds[i], 0 - 1) ELSE ds[i]]

check_dates(ds, market_holidays) ==
    [i \in 1..Len(ds) |-> PreviousMarketDay(ds[i], market_holidays)]

CalendarQuery ==
    [kind |-> "calendar", ticker |-> <<>>, start |-> NoDate, end |-> NoDate,
     answer |-> EmptyFrame]

CheckDates ==
    /\ pc = "check_dates"
    /\ queries' = Append(queries, CalendarQuery)
    /\ dates' = check_dates(dates, holidays)
    /\ pc' = "get_prices"
    /\ UNCHANGED <<argv, fs, today, holidays, args, unchecked_dates, tickers, df,
                   ticker_idx, date_idx, close_vals, exit_status>>


\* ------------------------------------------------------------ get_prices
\* (mutant) the end of the interval is the start date itself
EndDate_SameDay(date) == date

\* end_dates: the day after each date
EndDate(date) == AddDays(date, 1)

\* the label of the current price column (the wall-clock minute is left out)
CurrentLabel(now) == Label("price", now)

\* pd.DataFrame(columns=['ticker', current_label] + dates)
NewFrame(ds, now) ==
    [columns |-> <<TickerLabel, CurrentLabel(now)>>
                    \o [i \in 1..Len(ds) |-> Label("date", ds[i])],
     rows    |-> <<>>]

\* (mutant) rows keyed by ticker: a ticker seen before has its row replaced
AppendRow_Dedup(frame, row) ==
    IF \E r \in 1..Len(frame.rows) : frame.rows[r][1] = row[1]
    THEN [frame EXCEPT !.rows =
            [r \in 1..Len(frame.rows) |->
                IF frame.rows[r][1] = row[1] THEN row ELSE frame.rows[r]]]
    ELSE [frame EXCEPT !.rows = Append(frame.rows, row)]

\* df.loc[len(df)] = row
AppendRow(frame, row) == [frame EXCEPT !.rows = Append(frame.rows, row)]

\* (mutant) no data is recorded as a price of 0
CloseValue_Zero(answer) == IF answer = EmptyFrame THEN Num(0) ELSE answer

\* the close value a history answer gives: 'Close' of its first row, or NaN
CloseValue(answer) == IF answer = EmptyFrame THEN NaN ELSE answer

HistoryQueryOf(ticker, date, answer) ==
    [kind |-> "history", ticker |-> ticker, start |-> date, end |-> EndDate(date),
     answer |-> answer]

LiveQueryOf(ticker, answer) ==
    [kind |-> "live", ticker |-> ticker, start |-> NoDate, end |-> NoDate,
     answer |-> answer]

\* lines 87-91: end dates, current label, empty frame; the loops start
GetPricesEnter ==
    /\ pc = "get_prices"
    /\ df' = NewFrame(dates, today)
    /\ ticker_idx' = 1
    /\ date_idx' = 1
    /\ close_vals' = <<>>
    /\ pc' = "fetch"
    /\ UNCHANGED <<argv, fs, today, holidays, args, dates, unchecked_dates, tickers,
                   queries, exit_status>>

\* one pass of the inner loop: ticker_data.history(start=date, end=end_date)
HistoryQuery ==
    /\ pc = "fetch"
    /\ ticker_idx <= Len(tickers)
    /\ date_idx <= Len(dates)
    /\ \E answer \in HistoryAnswers(tickers[ticker_idx]) :
        /\ queries' = Append(queries,
                HistoryQueryOf(tickers[ticker_idx], dates[date_idx], answer))
        /\ close_vals' = Append(close_vals, CloseValue(answer))
    /\ date_idx' = date_idx + 1
    /\ UNCHANGED <<pc, argv, fs, today, holidays, args, dates, unchecked_dates,
                   tickers, df, ticker_idx, exit_status>>

\* the row of one ticker
RowOf(ticker, current_price, closes) == <<Text(ticker), current_price>> \o closes

\* (mutant) the lookup's exception is caught: the row gets NaN, the loop goes on
LiveQuery_Caught ==
    /\ pc = "fetch"
    /\ ticker_idx <= Len(tickers)
    /\ date_idx > Len(dates)
    /\ \E answer \in LiveAnswers(tickers[ticker_idx]) :
        /\ queries' = Append(queries, LiveQueryOf(tickers[ticker_idx], answer))
        /\ df' = AppendRow(df, RowOf(tickers[ticker_idx],
                                     IF answer = Raised THEN NaN ELSE answer, close_vals))
    /\ ticker_idx' = ticker_idx + 1
    /\ date_idx' = 1
    /\ close_vals' = <<>>
    /\ UNCHANGED <<pc, exit_status, argv, fs, today, holidays, args, dates,
                   unchecked_dates, tickers>>

\* the end of an outer pass: ticker_data.info['regularMarketPrice'], the row is
\* appended; an exception of the lookup is caught nowhere and ends the process
LiveQuery ==
    /\ pc = "fetch"
    /\ ticker_idx <= Len(tickers)
    /\ date_idx > Len(dates)
    /\ \E answer \in LiveAnswers(tickers[ticker_idx]) :
        /\ queries' = Append(queries, LiveQueryOf(tickers[ticker_idx], answer))
        /\ IF answer = Raised
           THEN /\ pc' = "crashed"
                /\ exit_status' = 1
                /\ UNCHANGED <<df, ticker_idx, date_idx, close_vals>>
           ELSE /\ df' = AppendRow(df, RowOf(tickers[ticker_idx], answer, close_vals))
                /\ ticker_idx' = ticker_idx + 1
                /\ date_idx' = 1
                /\ close_vals' = IF ticker_idx < Len(tickers) THEN <<>> ELSE close_vals
                /\ UNCHANGED <<pc, exit_status>>
    /\ UNCHANGED <<argv, fs, today, holidays, args, dates, unchecked_dates, tickers>>

\* lines 118-119: the date columns are relabelled '<date> close'
FinalColumns(ds, now) ==
    <<TickerLabel, CurrentLabel(now)>> \o [i \in 1..Len(ds) |-> CloseLabel(ds[i])]

GetPricesReturn ==
    /\ pc = "fetch"
    /\ ticker_idx > Len(tickers)
    /\ df' = [df EXCEPT !.columns = FinalColumns(dates, today)]
    /\ pc' = "calculate_returns"
    /\ UNCHANGED <<argv, fs, today, holidays, args, dates, unchecked_dates, tickers,
                   ticker_idx, date_idx, close_vals, queries, exit_status>>

\* ----------------------------------------------------- calculate_returns
\* (mutant) a missing close price gives the return a default of 0
calculate_return_ZeroDefault(current_val, initial_val) ==
    IF initial_val.k # "num" THEN Num(0)
    ELSE IF current_val.k # "num" THEN NaN
    ELSE IF initial_val.n = 0
         THEN (IF current_val.n > 0 THEN PosInf
               ELSE IF current_val.n < 0 THEN NegInf ELSE NaN)
    ELSE Frac((current_val.n - initial_val.n) * 100, initial_val.n)

\* (current_val - initial_val) / initial_val * 100 in IEEE arithmetic
calculate_return(current_val, initial_val) ==
    IF current_val.k # "num" \/ initial_val.k # "num" THEN NaN
    ELSE IF initial_val.n = 0
         THEN (IF current_val.n > 0 THEN PosInf
               ELSE IF current_val.n < 0 THEN NegInf ELSE NaN)
    ELSE Frac((current_val.n - initial_val.n) * 100, initial_val.n)

\* How the installed pandas hands a row to calculate_return_row decides two
\* things: a zero close divides as a numpy float (inf/nan) or as a Python float
\* (ZeroDivisionError); a None current price has been stored as NaN or is
\* still None (TypeError).
Builds == [zero_div : {"ieee", "raise"}, none : {"nan", "raise"}]

ReturnRaises(current_val, initial_val, build) ==
    \/ current_val.k = "none" /\ build.none = "raise"
    \/ initial_val.k = "num" /\ initial_val.n = 0 /\ build.zero_div = "raise"

\* calculate_return_row: the returns of one row, labelled by its close labels
RowReturns(row) == [j \in 1..(Len(row) - 2) |-> calculate_return(row[2], row[j + 2])]

ReturnLabels(columns) ==
    [j \in 1..(Len(columns) - 2) |-> ReplaceCloseReturn(columns[j + 2])]

\* pd.concat([df, returns_df], axis=1)
ConcatColumns(frame) ==
    [columns |-> frame.columns \o ReturnLabels(frame.columns),
     rows    |-> [r \in 1..Len(frame.rows) |-> frame.rows[r] \o RowReturns(frame.rows[r])]]

\* sort_index(axis=1, ascending=False): the column positions by label text,
\* greatest first; equal labels keep their order
RECURSIVE InsertPosition(_, _, _)
InsertPosition(sorted, columns, i) ==
    IF sorted = <<>> THEN <<i>>
    ELSE IF LabelLess(columns[Head(sorted)], columns[i]) THEN <<i>> \o sorted
    ELSE <<Head(sorted)>> \o InsertPosition(Tail(sorted), columns, i)

SortedPositions(columns) ==
    LET F[i \in 0..Len(columns)] ==
            IF i = 0 THEN <<>> ELSE InsertPosition(F[i - 1], columns, i)
    IN  F[Len(columns)]

SortColumnsDesc(frame) == TakeColumns(frame, SortedPositions(frame.columns))

\* columns[0:2] and then, for each idx, close_cols[idx], return_cols[idx] where
\* return_cols = columns[2::2] and close_cols = columns[3::2]
ReorderedCols(columns) ==
    LET n == (Len(columns) - 2) \div 2
    IN  SubSeq(columns, 1, 2)
        \o Concat([idx \in 1..n |-> <<columns[2 * idx + 2], columns[2 * idx + 1]>>])

calculate_returns(frame) ==
    LET sorted == SortColumnsDesc(ConcatColumns(frame))
    IN  SelectColumns(sorted, ReorderedCols(sorted.columns))

FrameRaises(frame, build) ==
    \E r \in 1..Len(frame.rows) : \E j \in 3..Len(frame.rows[r]) :
        ReturnRaises(frame.rows[r][2], frame.rows[r][j], build)

CalculateReturns ==
    /\ pc = "calculate_returns"
    /\ \E build \in Builds :
        IF FrameRaises(df, build)
        THEN pc' = "crashed" /\ exit_status' = 1 /\ UNCHANGED df
        ELSE pc' = "append_period_headers" /\ df' = calculate_returns(df)
                /\ UNCHANGED exit_status
    /\ UNCHANGED <<argv, fs, today, holidays, args, dates, unchecked_dates, tickers,
                   ticker_idx, date_idx, close_vals, queries>>

\* ------------------------------------------------- append_period_headers
\* builds period headers it never adds: the frame comes back as it went in
AppendPeriodHeaders ==
    /\ pc = "append_period_headers"
    /\ pc' = "drop_close_prices"
    /\ UNCHANGED <<argv, fs, today, holidays, args, dates, unchecked_dates, tickers,
                   df, ticker_idx, date_idx, close_vals, queries, exit_status>>

\* ----------------------------------------------------- drop_close_prices
ColsToKeep(columns) ==
    LET F[i \in 0..Len(columns)] ==
            IF i = 0 THEN <<>>
            ELSE IF EndsWithClose(columns[i]) THEN F[i - 1]
                 ELSE Append(F[i - 1], columns[i])
    IN  F[Len(columns)]

drop_close_prices(a, frame) ==
    IF a.include_close_prices = 0
    THEN SelectColumns(frame, ColsToKeep(frame.columns))
    ELSE frame

DropClosePrices ==
    /\ pc = "drop_close_prices"
    /\ df' = drop_close_prices(args, df)
    /\ pc' = "write_csv"
    /\ UNCHANGED <<argv, fs, today, holidays, args, dates, unchecked_dates, tickers,
                   ticker_idx, date_idx, close_vals, queries, exit_status>>

\* ------------------------------------------------------------ dfs_to_csv
DfsToCsv ==
    /\ pc = "write_csv"
    /\ fs' = [fs EXCEPT !.output = [written |-> TRUE, table |-> df]]
    /\ pc' = "done"
    /\ exit_status' = 0
    /\ UNCHANGED <<argv, today, holidays, args, dates, unchecked_dates, tickers, df,
                   ticker_idx, date_idx, close_vals, queries>>

\* ------------------------------------------------------------------ main
Next ==
    \/ ParseAndValidateArgs
    \/ GetDates
    \/ OpenAndReadTickersFile
    \/ CheckDates
    \/ GetPricesEnter
    \/ HistoryQuery
    \/ LiveQuery
    \/ GetPricesReturn
    \/ CalculateReturns
    \/ AppendPeriodHeaders
    \/ DropClosePrices
    \/ DfsToCsv

Spec == Init /\ [][Next]_vars

SpecTable == InitTable /\ [][Next]_vars

NextDates == CheckDates

SpecDates == InitDates /\ [][NextDates]_vars


\* ================================================================ claims
\* ---- helpers of the claims
TradingDay(date, hs) == date \notin hs /\ Weekday(date) \notin {5, 6}

\* result is the latest trading day that is not after date
LatestTradingDay(result, date, hs) ==
    /\ ToDays(result) <= ToDays(date)
    /\ TradingDay(result, hs)
    /\ \A z \in (ToDays(result) + 1)..ToDays(date) : ~TradingDay(FromDays(z), hs)

Saturday == <<2024, 2, 24>>
Friday   == <<2024, 2, 23>>
Thursday == <<2024, 2, 22>>
Monday   == <<2024, 2, 26>>

\* C1: check_dates returns a list of the same length and order whose every
\* element is the latest calendar day, not after the input's, that is neither a
\* Saturday, a Sunday nor a holiday; a Saturday gives the Friday before it when
\* that is no holiday, and a trading day is returned as it is.
C1_CheckDates ==
    pc = "get_prices" =>
        /\ Len(dates) = Len(unchecked_dates)
        /\ \A i \in 1..Len(dates) :
            /\ LatestTradingDay(dates[i], unchecked_dates[i], holidays)
            /\ (unchecked_dates[i] = Saturday /\ Friday \notin holidays)
                   => dates[i] = Friday
            /\ TradingDay(unchecked_dates[i], holidays) => dates[i] = unchecked_dates[i]

\* a Monday holiday after a Friday holiday has been walked back to the Thursday
C1_Witness ==
    /\ pc = "get_prices"
    /\ {Monday, Friday} \subseteq holidays
    /\ Thursday \notin holidays
    /\ \E i \in 1..Len(dates) : unchecked_dates[i] = Monday /\ dates[i] = Thursday

\* ---- the table calculate_returns produced
TableMade == pc \in {"append_period_headers", "drop_close_prices"}

\* a numeric value, not the missing marker
Present(cell) == cell.k \in {"num", "inf"}

UniqueDate(d) == Cardinality({i \in 1..Len(dates) : dates[i] = d}) = 1

\* the close column and the return column of a period slot (of a date that
\* only one slot has)
SlotPairs ==
    {p \in (1..Len(df.columns)) \X (1..Len(df.columns)) :
        /\ df.columns[p[1]].kind = "close"
        /\ df.columns[p[2]].kind = "return"
        /\ df.columns[p[1]].date = df.columns[p[2]].date
        /\ UniqueDate(df.columns[p[1]].date)}

PricePosition == CHOOSE c \in 1..Len(df.columns) : df.columns[c].kind = "price"

ExpectedColumns ==
    <<TickerLabel, Label("price", today)>>
    \o Concat([i \in 1..Len(dates) |->
                  <<Label("close", dates[i]), Label("return", dates[i])>>])

\* C3: for every list of periods the table calculate_returns returns has the
\* columns ticker, current price, then one (close, return) pair per period,
\* close first, each return column computed from the close column before it.
C3_ColumnSchema ==
    TableMade =>
        /\ df.columns = ExpectedColumns
        /\ \A r \in 1..Len(df.rows) : \A i \in 1..Len(dates) :
            /\ Len(df.rows[r]) = 2 + 2 * Len(dates)
            /\ df.rows[r][2 * i + 2].k = "num" =>
                 /\ df.rows[r][2 * i + 1].k = "num"
                 /\ df.rows[r][2 * i + 2].d = df.rows[r][2 * i + 1].n

PeriodColumnDates(columns) ==
    LET F[i \in 0..Len(columns)] ==
            IF i = 0 THEN <<>>
            ELSE IF columns[i].kind \in {"close", "return"}
                 THEN Append(F[i - 1], columns[i].date) ELSE F[i - 1]
    IN  F[Len(columns)]

NonIncreasing(ds) == \A i \in 1..Len(ds) : \A j \in i..Len(ds) : ~DateLess(ds[i], ds[j])

\* C4: whatever the order of the period arguments, the dates get_dates and then
\* check_dates give are non-increasing, and the dates of the period columns of
\* the output header come in that most-recent-first order.
C4_MostRecentFirst ==
    /\ pc \in {"get_prices", "fetch", "calculate_returns"} => NonIncreasing(dates)
    /\ TableMade => NonIncreasing(PeriodColumnDates(df.columns))

\* ---- the provider calls
ProviderQueries == IF queries = <<>> THEN <<>> ELSE Tail(queries)

\* the ticker (by position in the list) and the slot a call belongs to
TickerNo(q) == 1 + Cardinality({j \in 1..(q - 1) : queries[j].kind = "live"})

Processed == Cardinality({j \in 1..Len(queries) :
                             queries[j].kind = "live" /\ queries[j].answer # Raised})

TickerColumn(frame) == [r \in 1..Len(frame.rows) |-> frame.rows[r][1].s]

FileTickers == Map(fs.ticker_file.lines, Strip)

\* C5: after the first k tickers the table holds k rows, the first k tickers of
\* the list in order; a run that completes writes one row per line of the
\* list, in its order, duplicates kept.
C5_RowPerTicker ==
    /\ pc \in {"fetch", "calculate_returns", "crashed"} =>
          TickerColumn(df) = SubSeq(FileTickers, 1, Processed)
    /\ pc = "done" =>
          /\ fs.output.written
          /\ Len(fs.output.table.rows) = Len(fs.ticker_file.lines)
          /\ TickerColumn(fs.output.table) = FileTickers

\* the list names one ticker twice, and two rows were written for it
C5_Witness ==
    /\ pc = "done"
    /\ Len(fs.ticker_file.lines) = 2
    /\ fs.ticker_file.lines[1] = fs.ticker_file.lines[2]
    /\ Len(fs.output.table.rows) = 2
    /\ fs.output.table.rows[1][1] = fs.output.table.rows[2][1]

LiveAnswerOf(t) ==
    LET q == CHOOSE j \in 1..Len(queries) :
                 queries[j].kind = "live" /\ TickerNo(j) = t
    IN  queries[q].answer

\* the ticker (by position) and the slot of every call of a log (@@ builds the
\* function once instead of at every application)
TickerNos(log) ==
    [j \in 1..Len(log) |-> 1 + Cardinality({i \in 1..(j - 1) : log[i].kind = "live"})]
    @@ <<>>

SlotNos(log, tno) ==
    [j \in 1..Len(log) |->
        Cardinality({i \in 1..j : log[i].kind = "history" /\ tno[i] = tno[j]})]
    @@ <<>>

NoDataNotFatal(tno, sno) ==
    \A q \in 1..Len(queries) :
        (queries[q].kind = "history" /\ queries[q].answer = EmptyFrame) =>
            /\ pc = "crashed" => queries[Len(queries)].kind = "live"
            /\ q = Len(queries) => pc = "fetch"
            /\ \A q2 \in q..Len(queries) :
                  (queries[q2].kind = "history" /\ sno[q2] = sno[q])
                      => queries[q2].start = queries[q].start
            /\ pc \in {"fetch", "calculate_returns"} =>
                /\ dates[sno[q]] = queries[q].start
                /\ df.columns[sno[q] + 2].date = queries[q].start
                /\ IF tno[q] <= Len(df.rows)
                   THEN /\ df.rows[tno[q]][sno[q] + 2] = NaN
                        /\ df.rows[tno[q]][2] = LiveAnswerOf(tno[q])
                        /\ df.rows[tno[q]][2].k = "num"
                   ELSE close_vals[sno[q]] = NaN

C7_LiveFailureFatal ==
    \A q \in 1..Len(queries) :
        (queries[q].kind = "live" /\ queries[q].answer = Raised) =>
            /\ q = Len(queries)
            /\ pc = "crashed"
            /\ exit_status # 0
            /\ ~fs.output.written

\* the lookup of the second ticker failed, the first ticker's row is dropped
C7_Witness ==
    /\ pc = "crashed"
    /\ Len(df.rows) = 1
    /\ queries[Len(queries)].answer = Raised
    /\ TickerNo(Len(queries)) = 2
    /\ ~fs.output.written

\* the numeric part of a specifier, with or without the year suffix
NumericPart(period) == IF EndsWithY(period) THEN DropLast(period) ELSE period

InputError ==
    \/ ~fs.ticker_file.exists
    \/ argv.periods = <<>>
    \/ \E i \in 1..Len(argv.periods) : ~IsIntLiteral(NumericPart(argv.periods[i]))

\* C8: on an input error (no ticker list file, no period, a period that is no
\* integer) the process exits non-zero with no provider queried and no output.
C8_InputErrorExits ==
    (InputError /\ pc # "start") =>
        /\ pc = "exit"
        /\ exit_status > 0
        /\ queries = <<>>
        /\ ~fs.output.written

\* the file exists and the only fault is a year period that is no integer
C8_Witness ==
    /\ pc = "exit"
    /\ fs.ticker_file.exists
    /\ argv.periods = <<P("1"), P2("x", "y")>>
    /\ exit_status = 1

\* the table without its close columns: the other columns, order and cells kept
WithoutCloseColumns(frame) ==
    LET keep == {i \in 1..Len(frame.columns) : frame.columns[i].kind # "close"}
        F[i \in 0..Len(frame.columns)] ==
            IF i = 0 THEN <<>>
            ELSE IF i \in keep THEN Append(F[i - 1], i) ELSE F[i - 1]
    IN  TakeColumns(frame, F[Len(frame.columns)])

\* C9: drop_close_prices with the flag 0 leaves the ticker, current price and
\* return columns, in their order and with their values, and no close column;
\* with the flag 1 it leaves the table as it is.
C9_DropClosePrices ==
    [][pc = "drop_close_prices" =>
          df' = IF argv.flag = "0" THEN WithoutCloseColumns(df) ELSE df]_vars

\* the call the k-th provider query has to be
ExpectedQuery(k) ==
    LET n == Len(dates)
        t == ((k - 1) \div (n + 1)) + 1
        i == ((k - 1) % (n + 1)) + 1
    IN  IF i <= n
        THEN [kind |-> "history", ticker |-> tickers[t], start |-> dates[i],
              end |-> FromDays(ToDays(dates[i]) + 1)]
        ELSE [kind |-> "live", ticker |-> tickers[t], start |-> NoDate, end |-> NoDate]

QueryShape(query) ==
    [kind |-> query.kind, ticker |-> query.ticker, start |-> query.start,
     end |-> query.end]

====
